---------------------------- MODULE Spec2Model ----------------------------
(***************************************************************************)
(* One FTP upload, as src/src/ftp_sender.rs (FtpSender::send_file, the     *)
(* "ensure-and-cwd" variant, called A here) and src/src/main.rs            *)
(* (send_file_over_ftp, the "path-join" variant, called B here) perform    *)
(* it.  Both functions are straight-line code over blocking calls; every   *)
(* blocking call is one action, so that the server and the local file      *)
(* system can change between two calls.  The ftp crate and the server are  *)
(* the environment: a call's outcome is what the server's state makes it   *)
(* ("ok" or "reject"), or "timeout" when the exchange is lost.             *)
(***************************************************************************)
EXTENDS Integers, Sequences, FiniteSets, TLC

VARIABLES
    variant,      \* "A": FtpSender::send_file, "B": send_file_over_ftp
    path,         \* source_file_path
    folder,       \* target_folder
    username,     \* Option<&str>, None when absent
    password,     \* Option<&str>, None when absent
    timeoutSecs,  \* timeout_secs
    fsKind,       \* local file system: canonical path -> "file" | "dir" | "none"
    content,      \* bytes of the local regular file the path leads to
    reachable,    \* whether host:port accepts a TCP connection
    srvAccounts,  \* the login pairs the server accepts
    srvDirs,      \* the folders that exist on the server
    srvFiles,     \* the files the server holds: records [dir, name, data]
    srvCwd,       \* the working directory of the current control connection
    pc,           \* the call the function performs next
    source_path,  \* let source_path (canonical), NoPath before validation
    connOpen,     \* ftp_stream is alive: the control connection is open
    fileOpen,     \* file is alive: the local file handle is open
    result,       \* "none" while running, then "Ok" or "Err"
    err,          \* the call whose error was returned, and its cause
    log,          \* the calls made in this run, in order, with their outcomes
    run,          \* which call of the function this is (1, 2, ...)
    kind0,        \* what the path led to when this run started
    dirs0,        \* the server's folders when this run started
    faultedRun,   \* an exchange of this run was lost (a timeout was injected)
    faulted,      \* an exchange of this or an earlier run was lost
    mkdTotal,     \* MKD commands issued over all runs
    host,         \* the host argument
    silent,       \* host:port never answers a connection attempt
    waited,       \* seconds this run has spent blocked in FtpStream::connect
    mainPc,       \* where main is: "library" when the caller is not main
    exitCode,     \* the exit code of the process, -1 while it runs
    loggerRes     \* what setup_logger() returned: "none" before the call

vars == <<variant, path, folder, username, password, timeoutSecs, fsKind,
          content, reachable, srvAccounts, srvDirs, srvFiles, srvCwd, pc,
          source_path, connOpen, fileOpen, result, err, log, run, kind0,
          dirs0, faultedRun, faulted, mkdTotal, host, silent, waited, mainPc,
          exitCode, loggerRes>>

config == <<variant, path, folder, username, password, timeoutSecs, content,
            reachable, srvAccounts, host, silent>>

proc == <<waited, mainPc, exitCode, loggerRes>>

(***************************************************************************)
(* Bounds and the small input sets.                                        *)
(***************************************************************************)
MaxRuns == 2

\* The longest a connection attempt is followed, in seconds.
MaxWait == 31

None == "<none>"
NoPath == <<>>
NoErr == [op |-> "", cause |-> ""]

Variants == {"A", "B"}
Paths == {"a.txt", "lnk", "docs", "nope", "", " "}
Hosts == {"h", "", " "}
Folders == {"./", "/uploads", "sub"}
Usernames == {None, "user"}
Passwords == {None, "pw"}
TimeoutValues == {0, 30}
Contents == {<<>>, <<84, 104>>}
LoginDir == "./"
AccountSets == {{<<"user", "pw">>}, {<<"anonymous", "anonymous">>}}

(***************************************************************************)
(* The local file system.  "a.txt" is a regular file in the working        *)
(* directory, "lnk" a symbolic link to /data/b.bin, "docs" a directory,    *)
(* "nope" does not exist.                                                  *)
(***************************************************************************)
Target(p) ==
    CASE p = "a.txt" -> <<"home", "a.txt">>
      [] p = "lnk"   -> <<"data", "b.bin">>
      [] p = "docs"  -> <<"home", "docs">>
      [] OTHER       -> <<"home", "nope">>

CanonPaths == {Target(p) : p \in Paths}

FsInit ==
    [c \in CanonPaths |->
        CASE c = <<"home", "a.txt">> -> "file"
          [] c = <<"data", "b.bin">> -> "file"
          [] c = <<"home", "docs">>  -> "dir"
          [] OTHER                   -> "none"]

\* std::fs::canonicalize: the absolute, link-free path; an error (NoPath)
\* when nothing exists there.
Canonicalize(fs, p) == IF fs[Target(p)] = "none" THEN NoPath ELSE Target(p)

\* Path::is_file
IsFile(fs, c) == c # NoPath /\ fs[c] = "file"

\* Path::file_name: the last component
FileName(c) == c[Len(c)]


(***************************************************************************)
(* The decisions the two functions take, as pure operators.                *)
(***************************************************************************)

\* Mutant: the is_file test is left out.
ValidateResultNoFileTest(fs, p) ==
    IF Canonicalize(fs, p) = NoPath THEN "canonicalize" ELSE "ok"

\* What the validation at the head of both functions answers: the call that
\* fails, or "ok".  (file_name() of a canonical regular file always exists.)
ValidateResult(fs, p) ==
    IF Canonicalize(fs, p) = NoPath THEN "canonicalize"
    ELSE IF ~IsFile(fs, Canonicalize(fs, p)) THEN "is_file"
    ELSE "ok"

\* Mutant: a user name alone is used, with an empty password.
LoginPairUserOnly(u, p) ==
    IF u # None THEN <<u, IF p # None THEN p ELSE "">>
    ELSE <<"anonymous", "anonymous">>

\* The pair handed to ftp_stream.login.
LoginPair(u, p) ==
    IF u # None /\ p # None THEN <<u, p>> ELSE <<"anonymous", "anonymous">>

\* Mutant: B hands the bare file name to put, as A does.
StorArgBareName(v, f, name) == <<name>>

\* Mutant: A joins the folder to the file name as well, after its CWD.
StorArgAlwaysJoin(v, f, name) == <<f, name>>

\* The remote name handed to ftp_stream.put: the bare file name in A (the
\* working directory was changed), Path::new(target_folder).join(filename)
\* in B.
StorArg(v, f, name) == IF v = "A" THEN <<name>> ELSE <<f, name>>

\* set_read_timeout / set_write_timeout with Some(timeout): std refuses a
\* zero Duration.
SetTimeoutResult(t) == IF t = 0 THEN "invalid" ELSE "ok"

\* Where the function goes after each call, given the call's outcome;
\* "returned" is the ? operator returning the error.
AfterConnect(res) == IF res = "ok" THEN "set_timeouts" ELSE "returned"

AfterSetTimeouts(v, res) ==
    IF res # "ok" THEN "returned"
    ELSE IF v = "B" THEN "read_response" ELSE "login"

\* Mutant: the login's error is not propagated.
AfterLoginIgnoreError(v, res) == IF v = "A" THEN "cwd" ELSE "open"

AfterLogin(v, res) ==
    IF res # "ok" THEN "returned"
    ELSE IF v = "A" THEN "cwd" ELSE "open"

\* Mutant: the folder is created without asking whether it exists.
AfterCwdAlwaysMkdir(res) == "mkdir"

AfterCwd(res) == IF res = "ok" THEN "open" ELSE "mkdir"

\* Mutant: the created folder is not entered.
AfterMkdirNoCwd(res) == IF res = "ok" THEN "open" ELSE "returned"

\* Mutant: the error of the MKD is not propagated.
AfterMkdirIgnoreError(res) == "cwd2"

AfterMkdir(res) == IF res = "ok" THEN "cwd2" ELSE "returned"

\* Mutant: the error of the CWD after the MKD is not propagated.
AfterCwd2IgnoreError(res) == "open"

AfterCwd2(res) == IF res = "ok" THEN "open" ELSE "returned"

\* Mutant: the store's error is not propagated.
AfterPutIgnoreError(res) == "quit"

\* Mutant: a failed store is tried again.
AfterPutRetry(res) == IF res = "ok" THEN "quit" ELSE "put"

AfterPut(res) == IF res = "ok" THEN "quit" ELSE "returned"

\* Mutant: the error of quit is logged and dropped.
QuitResultIgnoreError(res) == "Ok"

\* ftp_stream.quit()?; Ok(())
QuitResult(res) == IF res = "ok" THEN "Ok" ELSE "Err"

(***************************************************************************)
(* The server, as the ftp crate's calls see it.                            *)
(***************************************************************************)
LoginReply(accounts, pair) == IF pair \in accounts THEN "ok" ELSE "reject"

CwdReply(dirs, f) == IF f \in dirs THEN "ok" ELSE "reject"

MkdReply(dirs, f) == IF f \in dirs THEN "reject" ELSE "ok"

\* The folder a path names on the server when the working directory is cwd:
\* an absolute path names itself, "./" the working directory, a relative
\* path the folder of that name below the working directory.
Under(cwd, f) ==
    IF f = "/uploads" THEN f
    ELSE IF f = "./" THEN cwd
    ELSE IF cwd = LoginDir THEN f
    ELSE IF cwd = "sub" THEN "sub/sub"
    ELSE "/uploads/sub"

\* The folder and the name a STOR argument denotes on the server.
Resolve(arg, cwd) ==
    IF Len(arg) = 1 THEN <<cwd, arg[1]>> ELSE <<Under(cwd, arg[1]), arg[2]>>

StorReply(dirs, arg, cwd) ==
    IF Resolve(arg, cwd)[1] \in dirs THEN "ok" ELSE "reject"

Store(files, key, data) ==
    {f \in files : ~(f.dir = key[1] /\ f.name = key[2])}
        \cup {[dir |-> key[1], name |-> key[2], data |-> data]}

Prefixes(s) == {SubSeq(s, 1, n) : n \in 0..Len(s)}

\* The outcomes of one exchange: the server's answer, or the exchange lost.
Outcomes(reply) == {reply, "timeout"}

Entry(op, arg, res) == [op |-> op, arg |-> arg, res |-> res]

Cause(res) == IF res = "timeout" THEN "timeout" ELSE "reject"

\* Mutant: the connection and the file are closed by hand on the success
\* path only.
ReturnLeakOnError(res, e) ==
    /\ pc' = "returned"
    /\ result' = res
    /\ err' = e
    /\ connOpen' = (connOpen /\ res = "Err")
    /\ fileOpen' = (fileOpen /\ res = "Err")

\* Leaving the function: the result is set and the locals go out of scope,
\* which drops ftp_stream (closing the socket) and file (closing the handle).
Return(res, e) ==
    /\ pc' = "returned"
    /\ result' = res
    /\ err' = e
    /\ connOpen' = FALSE
    /\ fileOpen' = FALSE

Goto(next) ==
    /\ pc' = next
    /\ UNCHANGED <<result, err>>

\* One call that either fails the run or leads to the next call.
Proceed(next, op, res) ==
    IF next = "returned"
    THEN Return("Err", [op |-> op, cause |-> Cause(res)])
    ELSE Goto(next) /\ UNCHANGED <<connOpen, fileOpen>>

Fault(res) ==
    /\ faultedRun' = (faultedRun \/ res = "timeout")
    /\ faulted' = (faulted \/ res = "timeout")

NoFault == UNCHANGED <<faultedRun, faulted>>

ghost == <<run, kind0, dirs0, mkdTotal>>
server == <<srvDirs, srvFiles, srvCwd>>

(***************************************************************************)
(* The state after construction: the inputs and the environment are any of *)
(* the small sets; the server always has its login directory.              *)
(***************************************************************************)
Init ==
    /\ variant \in Variants
    /\ path \in Paths
    /\ folder \in Folders
    /\ username \in Usernames
    /\ password \in Passwords
    /\ timeoutSecs \in TimeoutValues
    /\ fsKind = FsInit
    /\ content \in Contents
    /\ reachable \in BOOLEAN
    /\ srvAccounts \in AccountSets
    /\ srvDirs \in {{LoginDir}, Folders}
    /\ srvFiles = {}
    /\ srvCwd = LoginDir
    /\ pc = "start"
    /\ source_path = NoPath
    /\ connOpen = FALSE
    /\ fileOpen = FALSE
    /\ result = "none"
    /\ err = NoErr
    /\ log = <<>>
    /\ run = 1
    /\ kind0 = fsKind[Target(path)]
    /\ dirs0 = srvDirs
    /\ faultedRun = FALSE
    /\ faulted = FALSE
    /\ mkdTotal = 0
    /\ host \in Hosts
    /\ silent \in BOOLEAN
    /\ reachable => (host = "h" /\ ~silent)
    /\ silent => host = "h"
    /\ waited = 0
    /\ mainPc = (IF variant = "B" THEN "setup_logger" ELSE "library")
    /\ exitCode = -1
    /\ loggerRes = "none"

(***************************************************************************)
(* The calls of send_file / send_file_over_ftp, in program order.          *)
(***************************************************************************)

\* canonicalize, is_file, file_name (and, in B, the join of the remote path)
Validate ==
    /\ UNCHANGED proc
    /\ pc = "start"
    /\ variant = "B" => mainPc = "call"
    /\ LET v == ValidateResult(fsKind, path) IN
       /\ log' = Append(log, Entry("validate", <<path>>, v))
       /\ IF v = "ok"
          THEN /\ source_path' = Canonicalize(fsKind, path)
               /\ Goto("connect")
               /\ UNCHANGED <<connOpen, fileOpen>>
          ELSE /\ Return("Err", [op |-> v, cause |-> "invalid"])
               /\ UNCHANGED source_path
    /\ NoFault
    /\ UNCHANGED <<config, folder, fsKind, server, ghost>>

\* FtpStream::connect(addr)?
Connect ==
    /\ UNCHANGED proc
    /\ pc = "connect"
    /\ \E res \in (IF silent THEN {"timeout"}
                  ELSE Outcomes(IF reachable THEN "ok" ELSE "reject")) :
       /\ log' = Append(log, Entry("connect", <<>>, res))
       /\ Fault(res)
       /\ IF AfterConnect(res) = "returned"
          THEN /\ Return("Err", [op |-> "connect", cause |-> Cause(res)])
               /\ UNCHANGED srvCwd
          ELSE /\ Goto(AfterConnect(res))
               /\ connOpen' = (res = "ok")
               /\ srvCwd' = LoginDir
               /\ UNCHANGED fileOpen
    /\ UNCHANGED <<config, folder, fsKind, source_path, srvDirs, srvFiles, ghost>>

\* set_read_timeout(Some(timeout))?; set_write_timeout(Some(timeout))?
SetTimeouts ==
    /\ UNCHANGED proc
    /\ pc = "set_timeouts"
    /\ LET res == SetTimeoutResult(timeoutSecs) IN
       /\ log' = Append(log, Entry("set_timeouts", <<>>, res))
       /\ IF AfterSetTimeouts(variant, res) = "returned"
          THEN Return("Err", [op |-> "set_timeouts", cause |-> "invalid"])
          ELSE Goto(AfterSetTimeouts(variant, res))
                   /\ UNCHANGED <<connOpen, fileOpen>>
    /\ NoFault
    /\ UNCHANGED <<config, folder, fsKind, source_path, server, ghost>>

\* B only: read_response(220), whose error is logged and ignored.  connect
\* has read the greeting already, so this read may find nothing to read.
ReadGreeting ==
    /\ UNCHANGED proc
    /\ pc = "read_response"
    /\ \E res \in {"ok", "timeout"} :
       log' = Append(log, Entry("read_response", <<>>, res))
    /\ Goto("login")
    /\ NoFault
    /\ UNCHANGED <<config, folder, fsKind, source_path, connOpen, fileOpen,
                   server, ghost>>

\* ftp_stream.login(user, pass)? or ftp_stream.login("anonymous", "anonymous")?
Login ==
    /\ UNCHANGED proc
    /\ pc = "login"
    /\ LET pair == LoginPair(username, password) IN
       \E res \in Outcomes(LoginReply(srvAccounts, pair)) :
       /\ log' = Append(log, Entry("login", pair, res))
       /\ Fault(res)
       /\ Proceed(AfterLogin(variant, res), "login", res)
    /\ UNCHANGED <<config, folder, fsKind, source_path, server, ghost>>

\* A only, ensure_remote_folder_exists: match ftp_stream.cwd(folder)
Cwd ==
    /\ UNCHANGED proc
    /\ pc = "cwd"
    /\ \E res \in Outcomes(CwdReply(srvDirs, folder)) :
       /\ log' = Append(log, Entry("cwd", <<folder>>, res))
       /\ Fault(res)
       /\ srvCwd' = IF res = "ok" THEN folder ELSE srvCwd
       /\ Goto(AfterCwd(res))
    /\ UNCHANGED <<config, folder, fsKind, source_path, connOpen, fileOpen,
                   srvDirs, srvFiles, ghost>>

\* A only: ftp_stream.mkdir(folder)?  A lost exchange may or may not have
\* created the folder.
Mkdir ==
    /\ UNCHANGED proc
    /\ pc = "mkdir"
    /\ \E res \in Outcomes(MkdReply(srvDirs, folder)) :
       /\ log' = Append(log, Entry("mkdir", <<folder>>, res))
       /\ Fault(res)
       /\ \E made \in BOOLEAN :
          /\ res = "ok" => made
          /\ res = "reject" => ~made
          /\ srvDirs' = IF made THEN srvDirs \cup {folder} ELSE srvDirs
       /\ Proceed(AfterMkdir(res), "mkdir", res)
    /\ mkdTotal' = mkdTotal + 1
    /\ UNCHANGED <<config, folder, fsKind, source_path, srvFiles, srvCwd,
                   run, kind0, dirs0>>

\* A only: ftp_stream.cwd(folder)? after the mkdir
Cwd2 ==
    /\ UNCHANGED proc
    /\ pc = "cwd2"
    /\ \E res \in Outcomes(CwdReply(srvDirs, folder)) :
       /\ log' = Append(log, Entry("cwd", <<folder>>, res))
       /\ Fault(res)
       /\ srvCwd' = IF res = "ok" THEN folder ELSE srvCwd
       /\ Proceed(AfterCwd2(res), "cwd", res)
    /\ UNCHANGED <<config, folder, fsKind, source_path, srvDirs, srvFiles,
                   ghost>>

\* Mutant: a file that cannot be opened does not end the run.
OpenFileIgnoreError ==
    /\ UNCHANGED proc
    /\ pc = "open"
    /\ LET res == IF IsFile(fsKind, source_path) THEN "ok" ELSE "reject" IN
       /\ log' = Append(log, Entry("open", <<>>, res))
       /\ Goto("put")
       /\ fileOpen' = (res = "ok")
       /\ UNCHANGED connOpen
    /\ NoFault
    /\ UNCHANGED <<config, folder, fsKind, source_path, server, ghost>>

\* File::open(&source_path)?
OpenFile ==
    /\ UNCHANGED proc
    /\ pc = "open"
    /\ LET res == IF IsFile(fsKind, source_path) THEN "ok" ELSE "reject" IN
       /\ log' = Append(log, Entry("open", <<>>, res))
       /\ IF res = "ok"
          THEN Goto("put") /\ fileOpen' = TRUE /\ UNCHANGED connOpen
          ELSE Return("Err", [op |-> "open", cause |-> "io"])
    /\ NoFault
    /\ UNCHANGED <<config, folder, fsKind, source_path, server, ghost>>

\* ftp_stream.put(name, &mut file)?  A transfer that is lost may leave any
\* prefix of the file on the server, or nothing.
Put ==
    /\ UNCHANGED proc
    /\ pc = "put"
    /\ LET arg == StorArg(variant, folder, FileName(source_path))
           key == Resolve(arg, srvCwd)
       IN
       \E res \in Outcomes(StorReply(srvDirs, arg, srvCwd)) :
       /\ log' = Append(log, Entry("put", arg, res))
       /\ Fault(res)
       /\ CASE res = "ok" -> srvFiles' = Store(srvFiles, key, content)
            [] res = "reject" -> srvFiles' = srvFiles
            [] OTHER ->
                 \/ srvFiles' = srvFiles
                 \/ /\ key[1] \in srvDirs
                    /\ \E part \in Prefixes(content) :
                          srvFiles' = Store(srvFiles, key, part)
       /\ Proceed(AfterPut(res), "put", res)
    /\ UNCHANGED <<config, folder, fsKind, source_path, srvDirs, srvCwd, ghost>>

\* ftp_stream.quit()?; Ok(())
Quit ==
    /\ UNCHANGED proc
    /\ pc = "quit"
    /\ \E res \in Outcomes("ok") :
       /\ log' = Append(log, Entry("quit", <<>>, res))
       /\ Fault(res)
       /\ Return(QuitResult(res),
                 IF QuitResult(res) = "Ok" THEN NoErr
                 ELSE [op |-> "quit", cause |-> Cause(res)])
    /\ UNCHANGED <<config, folder, fsKind, source_path, server, ghost>>

\* The caller calls the function again with the same arguments, against the
\* same server (examples/ftp_test.rs run twice, the CLI invoked twice).
NextRun ==
    /\ pc = "returned"
    /\ run < MaxRuns
    /\ pc' = "start"
    /\ source_path' = NoPath
    /\ result' = "none"
    /\ err' = NoErr
    /\ log' = <<>>
    /\ run' = run + 1
    /\ kind0' = fsKind[Target(path)]
    /\ dirs0' = srvDirs
    /\ faultedRun' = FALSE
    /\ variant = "B" => mainPc = "exited"
    /\ waited' = 0
    /\ mainPc' = (IF variant = "B" THEN "setup_logger" ELSE mainPc)
    /\ exitCode' = -1
    /\ loggerRes' = "none"
    /\ UNCHANGED <<config, folder, fsKind, connOpen, fileOpen, server,
                   faulted, mkdTotal>>

\* Another process removes the local file while the function has not opened
\* it yet.
EnvRemoveFile ==
    /\ UNCHANGED proc
    /\ pc \in {"start", "connect", "set_timeouts", "read_response", "login",
               "cwd", "mkdir", "cwd2", "open"}
    /\ fsKind[Target(path)] = "file"
    /\ fsKind' = [fsKind EXCEPT ![Target(path)] = "none"]
    /\ UNCHANGED <<config, folder, server, pc, source_path, connOpen,
                   fileOpen, result, err, log, ghost, faultedRun, faulted>>

(***************************************************************************)
(* main of src/src/main.rs, the process around send_file_over_ftp (B).     *)
(***************************************************************************)

\* The characters of the strings the model uses for host and path.
Chars(s) ==
    CASE s = ""      -> <<>>
      [] s = " "     -> <<" ">>
      [] s = "h"     -> <<"h">>
      [] s = "a.txt" -> <<"a", ".", "t", "x", "t">>
      [] s = "lnk"   -> <<"l", "n", "k">>
      [] s = "docs"  -> <<"d", "o", "c", "s">>
      [] OTHER       -> <<"n", "o", "p", "e">>

Whitespace == {" ", "\t", "\n"}

RECURSIVE TrimStart(_)
TrimStart(cs) ==
    IF cs # <<>> /\ Head(cs) \in Whitespace THEN TrimStart(Tail(cs)) ELSE cs

RECURSIVE TrimEnd(_)
TrimEnd(cs) ==
    IF cs # <<>> /\ cs[Len(cs)] \in Whitespace
    THEN TrimEnd(SubSeq(cs, 1, Len(cs) - 1))
    ELSE cs

\* str::trim
Trim(cs) == TrimEnd(TrimStart(cs))

\* Mutant: is_empty() without the trim.
ArgsResultNoTrim(h, p) ==
    IF Chars(h) = <<>> THEN "host"
    ELSE IF Chars(p) = <<>> THEN "path"
    ELSE "ok"

\* The argument checks of main: the argument that is refused, or "ok".
ArgsResult(h, p) ==
    IF Trim(Chars(h)) = <<>> THEN "host"
    ELSE IF Trim(Chars(p)) = <<>> THEN "path"
    ELSE "ok"

\* The exit code main ends with once send_file_over_ftp has returned:
\* process::exit(1) on Err, the end of main on Ok.
ExitCode(res) == IF res = "Ok" THEN 0 ELSE 1

\* if let Err(e) = setup_logger() { ...; std::process::exit(1); }
MainSetupLogger ==
    /\ mainPc = "setup_logger"
    /\ \E r \in {"ok", "err"} :
       /\ loggerRes' = r
       /\ IF r = "ok"
          THEN mainPc' = "check_args" /\ UNCHANGED exitCode
          ELSE mainPc' = "exited" /\ exitCode' = 1
    /\ UNCHANGED <<config, folder, fsKind, server, pc, source_path, connOpen,
                   fileOpen, result, err, log, ghost, faultedRun, faulted,
                   waited>>

\* Args::parse() and the checks of args.host and args.path
MainCheckArgs ==
    /\ mainPc = "check_args"
    /\ IF ArgsResult(host, path) = "ok"
       THEN mainPc' = "call" /\ UNCHANGED exitCode
       ELSE mainPc' = "exited" /\ exitCode' = 1
    /\ UNCHANGED <<config, folder, fsKind, server, pc, source_path, connOpen,
                   fileOpen, result, err, log, ghost, faultedRun, faulted,
                   waited, loggerRes>>

\* if let Err(e) = send_file_over_ftp(..) { ...; std::process::exit(1); }
MainExit ==
    /\ mainPc = "call"
    /\ pc = "returned"
    /\ mainPc' = "exited"
    /\ exitCode' = ExitCode(result)
    /\ UNCHANGED <<config, folder, fsKind, server, pc, source_path, connOpen,
                   fileOpen, result, err, log, ghost, faultedRun, faulted,
                   waited, loggerRes>>

\* FtpStream::connect(addr) takes no timeout: while the host does not
\* answer, the call stays blocked until the operating system gives up.
ConnectWait ==
    /\ pc = "connect"
    /\ silent
    /\ waited < MaxWait
    /\ waited' = waited + 1
    /\ UNCHANGED <<config, folder, fsKind, server, pc, source_path, connOpen,
                   fileOpen, result, err, log, ghost, faultedRun, faulted,
                   mainPc, exitCode, loggerRes>>

RunStep ==
    \/ Validate
    \/ Connect
    \/ SetTimeouts
    \/ ReadGreeting
    \/ Login
    \/ Cwd
    \/ Mkdir
    \/ Cwd2
    \/ OpenFile
    \/ Put
    \/ Quit

Next ==
    \/ RunStep
    \/ ConnectWait
    \/ MainSetupLogger
    \/ MainCheckArgs
    \/ MainExit
    \/ NextRun
    \/ EnvRemoveFile

Spec == Init /\ [][Next]_vars

(***************************************************************************)
(* Vocabulary of the properties.                                           *)
(***************************************************************************)
Returned == pc = "returned"

Idx == 1..Len(log)

Did(op) == {i \in Idx : log[i].op = op}

DidOk(op) == {i \in Did(op) : log[i].res = "ok"}

Last == log[Len(log)]

\* The file the run is to leave on the server.
Upload == [dir |-> folder, name |-> FileName(Target(path)), data |-> content]

Stored ==
    /\ Upload \in srvFiles
    /\ Cardinality({f \in srvFiles :
                       f.dir = Upload.dir /\ f.name = Upload.name}) = 1

\* The local file is a regular file from the start of the run to now.
FileStays == kind0 = "file" /\ fsKind[Target(path)] = "file"

\* C1: a source path that does not exist, or leads to something that is not
\* a regular file, makes the run fail in the validation (canonicalize for a
\* missing path, the is_file test otherwise) and no connect is attempted.
C1_InvalidSourceNoConnect ==
    kind0 # "file" =>
        /\ Did("connect") = {}
        /\ ~connOpen
        /\ pc \in {"start", "returned"}
        /\ Returned =>
              /\ result = "Err"
              /\ err.op = (IF kind0 = "none" THEN "canonicalize" ELSE "is_file")
              /\ Len(log) = 1

C1_Witness ==
    /\ Returned
    /\ kind0 = "dir"
    /\ result = "Err"
    /\ reachable

\* C2: when the connection succeeded and the server rejects the login, the
\* run fails with the login's rejection and issues no STOR, CWD or MKD.
C2_RejectedLoginStops ==
    \A i \in Did("login") :
        log[i].res = "reject" =>
            /\ DidOk("connect") # {}
            /\ Returned
            /\ result = "Err"
            /\ err = [op |-> "login", cause |-> "reject"]
            /\ Did("put") \cup Did("cwd") \cup Did("mkdir") = {}
            /\ i = Len(log)

C2_Witness ==
    /\ Returned
    /\ \E i \in Did("login") : log[i].res = "reject"
    /\ username = "user"
    /\ password = "pw"

\* C3: an existing regular file that stays in place, a positive timeout, a
\* reachable server that accepts the credentials and answers every command
\* (in B the target folder exists, or the server refuses the STOR): the run
\* returns success, and whenever a run returns success the server holds
\* exactly one file of the source's base name under the target folder, with
\* the local file's bytes.
ValidRun ==
    /\ FileStays
    /\ timeoutSecs > 0
    /\ reachable
    /\ (IF username # None /\ password # None
        THEN <<username, password>> ELSE <<"anonymous", "anonymous">>)
           \in srvAccounts
    /\ ~faultedRun
    /\ variant = "B" => folder \in dirs0

C3_ValidUploadSucceeds ==
    Returned =>
        /\ ValidRun => result = "Ok"
        /\ result = "Ok" => Stored /\ folder \in srvDirs

C3_Witness ==
    /\ Returned
    /\ ValidRun
    /\ result = "Ok"
    /\ path = "lnk"
    /\ content # <<>>
    /\ variant = "B"
    /\ folder = "/uploads"

ExpectedLogin ==
    IF username = None \/ password = None
    THEN <<"anonymous", "anonymous">>
    ELSE <<username, password>>

\* C5 as stated: the login carries the supplied pair exactly when both are
\* present, anonymous/anonymous otherwise, and every run makes exactly one
\* login attempt.
C5_ExactlyOneLogin ==
    /\ \A i \in Did("login") : log[i].arg = ExpectedLogin
    /\ Returned => Cardinality(Did("login")) = 1

\* C5 as the code has it: the same pair, at most one login attempt per run,
\* exactly one in every run that connected and set its timeouts, and none in
\* a run that failed before.
C5_AtMostOneLogin ==
    /\ \A i \in Did("login") : log[i].arg = ExpectedLogin
    /\ Cardinality(Did("login")) <= 1
    /\ Returned =>
          (Cardinality(Did("login")) = 1 <=> DidOk("set_timeouts") # {})

C5_Witness ==
    /\ Returned
    /\ username = "user"
    /\ password = None
    /\ \E i \in Did("login") : log[i].arg = <<"anonymous", "anonymous">>

\* The exchanges of a run of A that finds the folder absent.
CreateSequence ==
    << Entry("cwd", <<folder>>, "reject"),
       Entry("mkdir", <<folder>>, "ok"),
       Entry("cwd", <<folder>>, "ok"),
       Entry("open", <<>>, "ok"),
       Entry("put", <<FileName(Target(path))>>, "ok"),
       Entry("quit", <<>>, "ok") >>

AfterLoginLog ==
    IF DidOk("login") = {} THEN <<>>
    ELSE LET i == CHOOSE k \in DidOk("login") : TRUE
         IN SubSeq(log, i + 1, Len(log))

IsPrefix(a, b) == Len(a) <= Len(b) /\ a = SubSeq(b, 1, Len(a))

\* C6: in A, with the target folder absent after login and a server that
\* answers every command, the run issues CWD (rejected), MKD, CWD, then
\* stores the file and returns success; the folder then exists on the server
\* and holds the uploaded file.
C6_AbsentFolderCreated ==
    (variant = "A" /\ folder \notin dirs0 /\ ~faultedRun
        /\ DidOk("login") # {}) =>
        /\ \/ IsPrefix(AfterLoginLog, CreateSequence)
           \/ /\ ~FileStays
              /\ AfterLoginLog = Append(SubSeq(CreateSequence, 1, 3),
                                        Entry("open", <<>>, "reject"))
        /\ (Returned /\ FileStays) =>
              /\ AfterLoginLog = CreateSequence
              /\ result = "Ok"
              /\ folder \in srvDirs
              /\ srvCwd = folder
              /\ Stored

C6_Witness ==
    /\ Returned
    /\ variant = "A"
    /\ folder \notin dirs0
    /\ ~faultedRun
    /\ result = "Ok"
    /\ AfterLoginLog = CreateSequence

Tolerated(i) ==
    \/ log[i].op \in {"quit", "read_response"}
    \/ /\ log[i].op = "cwd"
       /\ \A j \in 1..(i - 1) : log[j].op # "mkdir"

ErrOp(e) == IF e.op = "validate" THEN e.res ELSE e.op

\* C8: a failure of validation, connect, setting the timeouts, login,
\* creating or entering the remote folder, opening the local file or the
\* store is the last thing the run does: no call follows it, no call is made
\* a second time, and the run returns that failure.
C8_FailureAborts ==
    /\ \A i \in Idx :
          (log[i].res # "ok" /\ ~Tolerated(i)) =>
              /\ i = Len(log)
              /\ Returned
              /\ result = "Err"
              /\ err.op = ErrOp(log[i])
    /\ \A i, j \in Idx :
          (i < j /\ log[i].op = log[j].op) =>
              /\ log[i].op = "cwd"
              /\ log[i].res # "ok"
              /\ Cardinality(Did("cwd")) = 2
              /\ \E k \in DidOk("mkdir") : i < k /\ k < j

C8_Witness ==
    /\ Returned
    /\ Last = Entry("put", <<FileName(Target(path))>>, "timeout")
    /\ Did("mkdir") # {}
    /\ result = "Err"

\* The stages of the specification's state machine, by the calls that belong
\* to each: 1 Idle, 2 Connecting, 3 Authenticating, 4 ResolvingDestination,
\* 5 Transferring, 6 Closing.
StageOf(op) ==
    CASE op = "validate" -> 1
      [] op \in {"connect", "set_timeouts", "read_response"} -> 2
      [] op = "login" -> 3
      [] op \in {"cwd", "mkdir"} -> 4
      [] op \in {"open", "put"} -> 5
      [] OTHER -> 6

StagesInOrder ==
    \A i, j \in Idx : i < j => StageOf(log[i].op) <= StageOf(log[j].op)

TerminalIsFinal ==
    /\ Returned <=> result \in {"Ok", "Err"}
    /\ Returned => ~ENABLED RunStep

StorAndQuitPlaced ==
    /\ Cardinality(Did("put")) <= 1
    /\ \A i \in Did("put") :
          /\ \E j \in DidOk("login") : j < i
          /\ variant = "A" =>
                /\ \E j \in DidOk("cwd") : j < i
                /\ srvCwd = folder
    /\ \A i \in Did("quit") : \E j \in DidOk("put") : j < i

\* C9 as stated: the stages come in the order of the state machine, none
\* twice, Done and Failed are terminal, and every run opens exactly one
\* control connection (so at most one STOR, after a successful login and a
\* resolved destination, and QUIT only after STOR).
C9_ExactlyOneConnection ==
    /\ StagesInOrder
    /\ TerminalIsFinal
    /\ StorAndQuitPlaced
    /\ Returned => Cardinality(DidOk("connect")) = 1

\* C9 as the code has it: the same order, and at most one control connection
\* per run: one connect attempt in every run whose source passed validation,
\* none in a run that failed validation.
C9_AtMostOneConnection ==
    /\ StagesInOrder
    /\ TerminalIsFinal
    /\ StorAndQuitPlaced
    /\ Cardinality(Did("connect")) <= 1
    /\ Returned =>
          (Cardinality(Did("connect")) = 1 <=> DidOk("validate") # {})
    /\ connOpen => DidOk("connect") # {}

C9_Witness ==
    /\ Returned
    /\ result = "Ok"
    /\ variant = "A"
    /\ Did("mkdir") # {}
    /\ {StageOf(log[i].op) : i \in Idx} = 1..6

\* C10: when the function has returned, with success or with any failure,
\* the control connection and the local file handle are no longer open.
C10_ResourcesReleased ==
    /\ Returned => ~connOpen /\ ~fileOpen
    /\ fileOpen => pc \in {"put", "quit"}
    /\ connOpen <=> (DidOk("connect") # {} /\ ~Returned)

C10_Witness ==
    /\ Returned
    /\ result = "Err"
    /\ err = [op |-> "put", cause |-> "timeout"]
    /\ Upload \notin srvFiles
    /\ content # <<>>

\* The exchanges made after the timeouts were set that ended by the timeout.
TimedOut ==
    {i \in Idx : /\ log[i].res = "timeout"
                 /\ \E j \in DidOk("set_timeouts") : j < i}

\* C11 as stated: every exchange after the timeouts were set (greeting read,
\* login, CWD, MKD, STOR, QUIT) that ends by the timeout makes the run fail
\* with that timeout as its error.
C11_EveryTimeoutFails ==
    \A i \in TimedOut :
        /\ Returned
        /\ result = "Err"
        /\ err = [op |-> log[i].op, cause |-> "timeout"]

\* C11 as the code has it: a timeout of login, MKD, the CWD after MKD, STOR
\* or QUIT ends the run with that timeout as its error; a timeout of the
\* greeting read of B is logged and ignored (the login follows), and a
\* timeout of the first CWD of A is taken for a missing folder (the MKD
\* follows).
C11_TimeoutFailsButProbes ==
    \A i \in TimedOut :
        CASE log[i].op = "read_response" ->
                 /\ variant = "B"
                 /\ IF i = Len(log) THEN pc = "login"
                    ELSE log[i + 1].op = "login"
                 /\ err.op # "read_response"
          [] log[i].op = "cwd" /\ Tolerated(i) ->
                 /\ variant = "A"
                 /\ IF i = Len(log) THEN pc = "mkdir"
                    ELSE log[i + 1].op = "mkdir"
          [] OTHER ->
                 /\ log[i].op \in {"login", "mkdir", "cwd", "put", "quit"}
                 /\ i = Len(log)
                 /\ Returned
                 /\ result = "Err"
                 /\ err = [op |-> log[i].op, cause |-> "timeout"]

C11_Witness ==
    /\ Returned
    /\ DidOk("mkdir") # {}
    /\ Last = Entry("cwd", <<folder>>, "timeout")
    /\ err = [op |-> "cwd", cause |-> "timeout"]

\* C12: for a host that never answers the connection attempt, the
\* configured timeout governs the connect step: the run is blocked in the
\* connect for no longer than the timeout, and then fails with the
\* connection error.
C12_TimeoutGovernsConnect ==
    (silent /\ timeoutSecs > 0) =>
        /\ waited <= timeoutSecs
        /\ Did("connect") # {} =>
              (Returned /\ result = "Err" /\ err.op = "connect")

Exited == mainPc = "exited"

BlankArg == host \in {"", " "} \/ path \in {"", " "}

\* C13: the process exits with 0 exactly when send_file_over_ftp returned
\* success, and with 1 when the logger setup failed, when host or path is
\* empty or only white space, and when send_file_over_ftp returned an error;
\* with an empty host or path it exits before send_file_over_ftp is called.
C13_ExitCodes ==
    /\ Exited <=> exitCode # -1
    /\ Exited =>
          /\ exitCode \in {0, 1}
          /\ exitCode = 0 <=> (Returned /\ result = "Ok")
          /\ loggerRes = "err" => exitCode = 1
          /\ BlankArg => exitCode = 1
          /\ result = "Err" => exitCode = 1
          /\ Returned \/ (log = <<>> /\ (loggerRes = "err" \/ BlankArg))
    /\ (variant = "B" /\ (BlankArg \/ loggerRes # "ok")) =>
          (log = <<>> /\ pc = "start")

C13_Witness ==
    /\ Exited
    /\ exitCode = 1
    /\ host = " "
    /\ loggerRes = "ok"
    /\ path = "a.txt"
    /\ reachable = FALSE

\* C14: the variant that issues CWD/MKD (A) hands the bare file name to
\* STOR, the variant that hands the folder joined with the file name to STOR
\* (B) issues no CWD and no MKD; the target folder is applied to the remote
\* path once: what a STOR names lies in the target folder itself, and no file
\* is stored anywhere else.
C14_PoliciesNotBlended ==
    /\ \A i \in Did("put") :
          /\ variant = "A" =>
                /\ log[i].arg = <<FileName(Target(path))>>
                /\ DidOk("cwd") # {}
          /\ variant = "B" =>
                log[i].arg = <<folder, FileName(Target(path))>>
          /\ Resolve(log[i].arg, srvCwd)[1] = folder
    /\ variant = "B" =>
          /\ Did("cwd") \cup Did("mkdir") = {}
          /\ srvCwd = LoginDir
          /\ srvDirs = dirs0
    /\ \A f \in srvFiles : f.dir = folder
    /\ srvDirs \subseteq Folders

C14_Witness ==
    /\ Returned
    /\ result = "Ok"
    /\ variant = "A"
    /\ folder = "sub"
    /\ folder \notin dirs0
    /\ Stored

\* C15: the local file is validated before the connect and opened only after
\* the login (in A, after the remote folder was entered).  When it cannot be
\* opened then, because it was removed after the validation, the run fails
\* with the error of the open, no STOR is issued, and a folder this run
\* created by MKD is still on the server.
C15_LateOpenFailure ==
    /\ \A c \in Did("connect") : \E v \in DidOk("validate") : v < c
    /\ \A i \in Did("open") :
          /\ \E c \in DidOk("connect") : c < i
          /\ \E l \in DidOk("login") : l < i
          /\ variant = "A" => \E d \in DidOk("cwd") : d < i
          /\ log[i].res # "ok" =>
                /\ kind0 = "file"
                /\ fsKind[Target(path)] = "none"
                /\ i = Len(log)
                /\ Returned
                /\ result = "Err"
                /\ err = [op |-> "open", cause |-> "io"]
                /\ Did("put") = {}
                /\ DidOk("mkdir") # {} => folder \in srvDirs
    /\ fileOpen => DidOk("open") # {}

C15_Witness ==
    /\ Returned
    /\ err = [op |-> "open", cause |-> "io"]
    /\ DidOk("mkdir") # {}
    /\ folder \in srvDirs
    /\ folder \notin dirs0
    /\ srvFiles = {}

\* The last CWD made before call i of the log (0 when there is none).
LastCwdBefore(i) ==
    LET cs == {c \in Did("cwd") : c < i}
    IN IF cs = {} THEN 0 ELSE CHOOSE c \in cs : \A d \in cs : d <= c

\* C16: in A, when STOR is issued the most recent CWD to the target folder
\* on the connection succeeded, so the server's working directory is the
\* target folder when the bare file name is stored; no STOR follows a failed
\* MKD or a failed CWD after the MKD.
C16_StorInTargetFolder ==
    variant = "A" =>
        /\ pc \in {"open", "put", "quit"} =>
              /\ srvCwd = folder
              /\ LastCwdBefore(Len(log) + 1) # 0
              /\ log[LastCwdBefore(Len(log) + 1)] = Entry("cwd", <<folder>>, "ok")
        /\ \A i \in Did("put") :
              /\ LastCwdBefore(i) # 0
              /\ log[LastCwdBefore(i)] = Entry("cwd", <<folder>>, "ok")
              /\ srvCwd = folder
              /\ Resolve(log[i].arg, srvCwd) = <<folder, FileName(Target(path))>>
              /\ \A k \in Did("mkdir") : log[k].res = "ok"
              /\ \A c \in Did("cwd") :
                    (\E k \in Did("mkdir") : k < c) => log[c].res = "ok"

C16_Witness ==
    /\ pc = "quit"
    /\ variant = "A"
    /\ Cardinality(Did("cwd")) = 2
    /\ log[LastCwdBefore(Len(log))].res = "ok"
    /\ srvCwd = "/uploads"
=============================================================================
